---- MODULE Spec2Model ----
(***************************************************************************)
(* Model of PipelineCfg.TransferFiles (src/main.go): a feeder goroutine,   *)
(* a pool of SFTP reader goroutines, a sentinel goroutine that closes the  *)
(* results channel, a pool of process workers and the calling goroutine.   *)
(* Every goroutine is a small program counter machine; channels, wait      *)
(* groups and the two int32 counters are the shared state.  The goroutines *)
(* of a pool run the same closure and have no identity of their own, so a  *)
(* pool is the bag of the local states of its goroutines.                  *)
(***************************************************************************)
EXTENDS Integers, Sequences, FiniteSets, Bags, TLC

\* ---- bounds of the model ----
MaxJobs == 3
MaxReaders == 2
MaxWorkers == 2
MaxBuffer == 1

\* ---- int32 counters ----
Int32Max == 2147483647
Int32Min == -Int32Max - 1

VARIABLES
  cfg,          \* PipelineCfg: [SFTPReaders, Workers, BufferSize]
  jobs,         \* the input slice of FileJob
  jobsChan,     \* buffered items of jobsChan
  jobsCap,      \* capacity of jobsChan (-1 before make)
  jobsClosed,   \* jobsChan has been closed
  resultsChan,  \* buffered items of resultsChan
  resultsCap,   \* capacity of resultsChan (-1 before make)
  resultsClosed,\* resultsChan has been closed
  closeCount,   \* number of close(resultsChan) executed
  readWg,       \* counter of readWg
  processWg,    \* counter of processWg
  transferred,  \* named result, int32
  failed,       \* named result, int32
  mainPc,       \* position of the calling goroutine
  mainI,        \* loop variable i of the spawning loops
  ret,          \* the returned pair, once returned
  feederPc,     \* position of the feeder goroutine
  feederI,      \* index of the next job the feeder sends
  readers,      \* bag of the reader goroutines' states [pc, job, handles]
  sentinelPc,   \* position of the sentinel goroutine
  workers,      \* bag of the process workers' states [pc, res]
  panicked,     \* a run-time panic happened (send on / close of closed channel)
  jobState,     \* per job: position on the per-job path
  fetchOut,     \* per job: outcome of the fetch ("none" until known)
  procOut,      \* per job: outcome of processFunc ("none" until known)
  incT,         \* per job: increments of transferred it caused
  incF,         \* per job: increments of failed it caused
  calls,        \* per job: invocations of processFunc with its result
  opened,       \* number of handles Open has returned
  closed,       \* number of f.Close() calls executed
  jobDeq,       \* per job: times it was received from jobsChan
  resDeq,       \* per job: times its result was received from resultsChan
  lateInc       \* a counter was incremented after the return read them

vars == <<cfg, jobs, jobsChan, jobsCap, jobsClosed, resultsChan, resultsCap,
          resultsClosed, closeCount, readWg, processWg, transferred, failed,
          mainPc, mainI, ret, feederPc, feederI, readers, sentinelPc, workers,
          panicked, jobState, fetchOut, procOut, incT, incF, calls, opened,
          closed, jobDeq, resDeq, lateInc>>

NoJob == 0

\* the local state of a reader goroutine is its position in the loop body
\* (recv, open, read, send, done), the job it holds and the number of file
\* handles it has open; that of a process worker is its position (recv,
\* process, done) and the result it holds. A goroutine starts at the head of
\* its range loop.
NewReader == [pc |-> "recv", job |-> NoJob, handles |-> 0]

NewWorker == [pc |-> "recv", res |-> NoJob]

\* one goroutine of the bag goes from local state s to local state t
Step(bag, s, t) == (bag (-) SetToBag({s})) (+) SetToBag({t})

\* number of goroutines of the bag whose local state is in the set S
Count(bag, S) == BagCardinality([s \in S \cap BagToSet(bag) |-> bag[s]])

\* FileJob{RemotePath, ID}: the i-th job of the list
FileJob(i) == [RemotePath |-> i, ID |-> i]

\* FileResult{ID: job.ID, Data: data}
FileResult(job) == [ID |-> job.ID, Data |-> job.RemotePath]

\* a read-modify-write whose update is lost
AddInt32Lost(x) == x

\* atomic.AddInt32(&x, 1): wraps at 32 bits
AddInt32(x) ==
  IF x = Int32Max THEN Int32Min ELSE x + 1

\* sync.WaitGroup: Add(1), Done() and the condition Wait() blocks for
WgAdd(n) == n + 1

\* a goroutine that exits without Done()
WgDoneMissing(n) == n

WgDone(n) == n - 1

\* a Wait() that does not block
WgWaitNoBlock(n) == TRUE

WgWait(n) == n = 0

\* the error values of Open, io.ReadAll and processFunc
Errors == {"nil", "err"}

\* the test written as err == nil
ProcErrInverted(err) == err = "nil"

\* the error of processFunc dropped
ProcErrIgnored(err) == FALSE

\* line 85: if err := processFunc(result); err != nil
ProcErr(err) == err # "nil"


\* the configurations and job lists a caller can pass
Cfgs ==
  [SFTPReaders : 0..MaxReaders, Workers : 0..MaxWorkers, BufferSize : 0..MaxBuffer]

JobLists == {[i \in 1..n |-> FileJob(i)] : n \in 0..MaxJobs}

Init ==
  /\ cfg \in Cfgs
  /\ jobs \in JobLists
  /\ jobsChan = <<>> /\ jobsCap = -1 /\ jobsClosed = FALSE
  /\ resultsChan = <<>> /\ resultsCap = -1 /\ resultsClosed = FALSE
  /\ closeCount = 0
  /\ readWg = 0 /\ processWg = 0
  /\ transferred = 0 /\ failed = 0
  /\ mainPc = "start" /\ mainI = 0
  /\ ret = [set |-> FALSE, transferred |-> 0, failed |-> 0]
  /\ feederPc = "idle" /\ feederI = 1
  /\ readers = EmptyBag
  /\ sentinelPc = "idle"
  /\ workers = EmptyBag
  /\ panicked = FALSE
  /\ jobState = [j \in 1..Len(jobs) |-> "Queued"]
  /\ fetchOut = [j \in 1..Len(jobs) |-> "none"]
  /\ procOut = [j \in 1..Len(jobs) |-> "none"]
  /\ incT = [j \in 1..Len(jobs) |-> 0]
  /\ incF = [j \in 1..Len(jobs) |-> 0]
  /\ calls = [j \in 1..Len(jobs) |-> 0]
  /\ opened = 0
  /\ closed = 0
  /\ jobDeq = [j \in 1..Len(jobs) |-> 0]
  /\ resDeq = [j \in 1..Len(jobs) |-> 0]
  /\ lateInc = FALSE

\* the program is running: no panic has torn the process down
Running == ~panicked

\* ---------------------------------------------------------------- caller

\* line 41 with the work queue made as large as the results queue,
\* make(chan FileJob, cfg.BufferSize)
MainStartSmallJobsChan ==
  /\ Running /\ mainPc = "start"
  /\ jobsCap' = cfg.BufferSize
  /\ resultsCap' = cfg.BufferSize
  /\ feederPc' = "send"
  /\ mainPc' = "spawnReaders" /\ mainI' = 0
  /\ UNCHANGED <<cfg, jobs, jobsChan, jobsClosed, resultsChan, resultsClosed,
                 closeCount, readWg, processWg, transferred, failed, ret,
                 feederI, readers, sentinelPc, workers, panicked, jobState,
                 fetchOut, procOut, incT, incF, calls, opened, closed, jobDeq,
                 resDeq, lateInc>>

\* line 42 with the results queue made as large as the job list,
\* make(chan FileResult, len(jobs))
MainStartLargeResultsChan ==
  /\ Running /\ mainPc = "start"
  /\ jobsCap' = Len(jobs)
  /\ resultsCap' = Len(jobs)
  /\ feederPc' = "send"
  /\ mainPc' = "spawnReaders" /\ mainI' = 0
  /\ UNCHANGED <<cfg, jobs, jobsChan, jobsClosed, resultsChan, resultsClosed,
                 closeCount, readWg, processWg, transferred, failed, ret,
                 feederI, readers, sentinelPc, workers, panicked, jobState,
                 fetchOut, procOut, incT, incF, calls, opened, closed, jobDeq,
                 resDeq, lateInc>>

\* lines 41-50: make both channels, start the feeder goroutine
MainStart ==
  /\ Running /\ mainPc = "start"
  /\ jobsCap' = Len(jobs)
  /\ resultsCap' = cfg.BufferSize
  /\ feederPc' = "send"
  /\ mainPc' = "spawnReaders" /\ mainI' = 0
  /\ UNCHANGED <<cfg, jobs, jobsChan, jobsClosed, resultsChan, resultsClosed,
                 closeCount, readWg, processWg, transferred, failed, ret,
                 feederI, readers, sentinelPc, workers, panicked, jobState,
                 fetchOut, procOut, incT, incF, calls, opened, closed, jobDeq,
                 resDeq, lateInc>>

\* lines 53-55: one iteration of the reader loop: readWg.Add(1); go func()
MainSpawnReader ==
  /\ Running /\ mainPc = "spawnReaders" /\ mainI < cfg.SFTPReaders
  /\ readWg' = WgAdd(readWg)
  /\ readers' = readers (+) SetToBag({NewReader})
  /\ mainI' = mainI + 1
  /\ UNCHANGED <<cfg, jobs, jobsChan, jobsCap, jobsClosed, resultsChan,
                 resultsCap, resultsClosed, closeCount, processWg, transferred,
                 failed, mainPc, ret, feederPc, feederI, sentinelPc, workers,
                 panicked, jobState, fetchOut, procOut, incT, incF, calls,
                 opened, closed, jobDeq, resDeq, lateInc>>

\* lines 74-77: the reader loop is over; start the sentinel goroutine
MainGoSentinel ==
  /\ Running /\ mainPc = "spawnReaders" /\ ~(mainI < cfg.SFTPReaders)
  /\ sentinelPc' = "wait"
  /\ mainPc' = "spawnWorkers" /\ mainI' = 0
  /\ UNCHANGED <<cfg, jobs, jobsChan, jobsCap, jobsClosed, resultsChan,
                 resultsCap, resultsClosed, closeCount, readWg, processWg,
                 transferred, failed, ret, feederPc, feederI, readers, workers,
                 panicked, jobState, fetchOut, procOut, incT, incF, calls,
                 opened, closed, jobDeq, resDeq, lateInc>>

\* lines 80-82: one iteration of the worker loop: processWg.Add(1); go func()
MainSpawnWorker ==
  /\ Running /\ mainPc = "spawnWorkers" /\ mainI < cfg.Workers
  /\ processWg' = WgAdd(processWg)
  /\ workers' = workers (+) SetToBag({NewWorker})
  /\ mainI' = mainI + 1
  /\ UNCHANGED <<cfg, jobs, jobsChan, jobsCap, jobsClosed, resultsChan,
                 resultsCap, resultsClosed, closeCount, readWg, transferred,
                 failed, mainPc, ret, feederPc, feederI, readers, sentinelPc,
                 panicked, jobState, fetchOut, procOut, incT, incF, calls,
                 opened, closed, jobDeq, resDeq, lateInc>>

\* line 94 left out: a caller that goes on to read the counters without
\* waiting for the process workers
MainWaitSkipped ==
  /\ Running /\ mainPc = "spawnWorkers" /\ ~(mainI < cfg.Workers)
  /\ mainPc' = "return"
  /\ UNCHANGED <<cfg, jobs, jobsChan, jobsCap, jobsClosed, resultsChan,
                 resultsCap, resultsClosed, closeCount, readWg, processWg,
                 transferred, failed, mainI, ret, feederPc, feederI, readers,
                 sentinelPc, workers, panicked, jobState, fetchOut, procOut,
                 incT, incF, calls, opened, closed, jobDeq, resDeq, lateInc>>

\* line 94: processWg.Wait() returns once the counter is zero
MainWait ==
  /\ Running /\ mainPc = "spawnWorkers" /\ ~(mainI < cfg.Workers)
  /\ WgWait(processWg)
  /\ mainPc' = "return"
  /\ UNCHANGED <<cfg, jobs, jobsChan, jobsCap, jobsClosed, resultsChan,
                 resultsCap, resultsClosed, closeCount, readWg, processWg,
                 transferred, failed, mainI, ret, feederPc, feederI, readers,
                 sentinelPc, workers, panicked, jobState, fetchOut, procOut,
                 incT, incF, calls, opened, closed, jobDeq, resDeq, lateInc>>

\* the values a plain (non atomic) read of a counter can yield: the counter's
\* value when no writer is unsynchronised with the read, else any value the
\* counter has held so far
PlainRead(x) ==
  IF \/ \E s \in BagToSet(readers) : s.pc # "done"
     \/ \E s \in BagToSet(workers) : s.pc # "done"
  THEN 0..x ELSE {x}

\* lines 96-98: read both counters for the summary and return them
MainReturn ==
  /\ Running /\ mainPc = "return"
  /\ \E t \in PlainRead(transferred), f \in PlainRead(failed) :
       ret' = [set |-> TRUE, transferred |-> t, failed |-> f]
  /\ mainPc' = "done"
  /\ UNCHANGED <<cfg, jobs, jobsChan, jobsCap, jobsClosed, resultsChan,
                 resultsCap, resultsClosed, closeCount, readWg, processWg,
                 transferred, failed, mainI, feederPc, feederI, readers,
                 sentinelPc, workers, panicked, jobState, fetchOut, procOut,
                 incT, incF, calls, opened, closed, jobDeq, resDeq, lateInc>>

\* ---------------------------------------------------------------- feeder

\* lines 46-48 with the list walked from its end: the feeder enqueues the
\* jobs in reverse input order
FeederSendReversed ==
  /\ Running /\ feederPc = "send" /\ feederI <= Len(jobs)
  /\ IF jobsClosed
     THEN panicked' = TRUE /\ UNCHANGED <<jobsChan, feederI>>
     ELSE /\ Len(jobsChan) < jobsCap
          /\ jobsChan' = Append(jobsChan, jobs[Len(jobs) + 1 - feederI])
          /\ feederI' = feederI + 1
          /\ UNCHANGED panicked
  /\ UNCHANGED <<cfg, jobs, jobsCap, jobsClosed, resultsChan, resultsCap,
                 resultsClosed, closeCount, readWg, processWg, transferred,
                 failed, mainPc, mainI, ret, feederPc, readers, sentinelPc,
                 workers, jobState, fetchOut, procOut, incT, incF, calls,
                 opened, closed, jobDeq, resDeq, lateInc>>

\* lines 46-48: jobsChan <- job, for the next job of the list
FeederSend ==
  /\ Running /\ feederPc = "send" /\ feederI <= Len(jobs)
  /\ IF jobsClosed
     THEN panicked' = TRUE /\ UNCHANGED <<jobsChan, feederI>>
     ELSE /\ Len(jobsChan) < jobsCap
          /\ jobsChan' = Append(jobsChan, jobs[feederI])
          /\ feederI' = feederI + 1
          /\ UNCHANGED panicked
  /\ UNCHANGED <<cfg, jobs, jobsCap, jobsClosed, resultsChan, resultsCap,
                 resultsClosed, closeCount, readWg, processWg, transferred,
                 failed, mainPc, mainI, ret, feederPc, readers, sentinelPc,
                 workers, jobState, fetchOut, procOut, incT, incF, calls,
                 opened, closed, jobDeq, resDeq, lateInc>>

\* line 49: close(jobsChan), after the last job
FeederClose ==
  /\ Running /\ feederPc = "send" /\ ~(feederI <= Len(jobs))
  /\ IF jobsClosed
     THEN panicked' = TRUE /\ UNCHANGED <<jobsClosed, feederPc>>
     ELSE jobsClosed' = TRUE /\ feederPc' = "done" /\ UNCHANGED panicked
  /\ UNCHANGED <<cfg, jobs, jobsChan, jobsCap, resultsChan, resultsCap,
                 resultsClosed, closeCount, readWg, processWg, transferred,
                 failed, mainPc, mainI, ret, feederI, readers, sentinelPc,
                 workers, jobState, fetchOut, procOut, incT, incF, calls,
                 opened, closed, jobDeq, resDeq, lateInc>>

\* ---------------------------------------------------------------- readers

\* line 57 and 56: for job := range jobsChan; the deferred readWg.Done()
\* runs when the channel is closed and drained
ReaderRecv(s) ==
  /\ Running /\ BagIn(s, readers) /\ s.pc = "recv"
  /\ IF jobsChan # <<>>
     THEN /\ readers' = Step(readers, s,
                 [s EXCEPT !.pc = "open", !.job = Head(jobsChan).ID])
          /\ jobsChan' = Tail(jobsChan)
          /\ jobState' = [jobState EXCEPT ![Head(jobsChan).ID] = "FetchInFlight"]
          /\ jobDeq' = [jobDeq EXCEPT ![Head(jobsChan).ID] = @ + 1]
          /\ UNCHANGED readWg
     ELSE /\ jobsClosed
          /\ readers' = Step(readers, s, [s EXCEPT !.pc = "done"])
          /\ readWg' = WgDone(readWg)
          /\ UNCHANGED <<jobsChan, jobState, jobDeq>>
  /\ UNCHANGED <<cfg, jobs, jobsCap, jobsClosed, resultsChan, resultsCap,
                 resultsClosed, closeCount, processWg, transferred, failed,
                 mainPc, mainI, ret, feederPc, feederI, sentinelPc, workers,
                 panicked, fetchOut, procOut, incT, incF, calls, opened,
                 closed, resDeq, lateInc>>

\* the open-error path with a return in place of its continue: the fetch
\* worker counts the failure and leaves its loop
ReaderOpenReturn(s) ==
  /\ Running /\ BagIn(s, readers) /\ s.pc = "open"
  /\ \E err \in Errors :
       IF err # "nil"
       THEN /\ failed' = AddInt32(failed)
            /\ incF' = [incF EXCEPT ![s.job] = @ + 1]
            /\ fetchOut' = [fetchOut EXCEPT ![s.job] = "fail"]
            /\ jobState' = [jobState EXCEPT ![s.job] = "FetchFailed"]
            /\ readers' = Step(readers, s,
                   [s EXCEPT !.pc = "done", !.job = NoJob])
            /\ readWg' = WgDone(readWg)
            /\ lateInc' = (lateInc \/ ret.set)
            /\ UNCHANGED opened
       ELSE /\ readers' = Step(readers, s,
                   [s EXCEPT !.pc = "read", !.handles = @ + 1])
            /\ opened' = opened + 1
            /\ UNCHANGED <<failed, incF, fetchOut, jobState, lateInc, readWg>>
  /\ UNCHANGED <<cfg, jobs, jobsChan, jobsCap, jobsClosed, resultsChan,
                 resultsCap, resultsClosed, closeCount, processWg, transferred,
                 mainPc, mainI, ret, feederPc, feederI, sentinelPc, workers,
                 panicked, procOut, incT, calls, closed, jobDeq, resDeq>>

\* the open-error path without its continue: the job is counted as failed and
\* still goes on to the results queue
ReaderOpenNoContinue(s) ==
  /\ Running /\ BagIn(s, readers) /\ s.pc = "open"
  /\ \E err \in Errors :
       IF err # "nil"
       THEN /\ failed' = AddInt32(failed)
            /\ incF' = [incF EXCEPT ![s.job] = @ + 1]
            /\ fetchOut' = [fetchOut EXCEPT ![s.job] = "fail"]
            /\ jobState' = [jobState EXCEPT ![s.job] = "FetchFailed"]
            /\ readers' = Step(readers, s, [s EXCEPT !.pc = "send"])
            /\ lateInc' = (lateInc \/ ret.set)
            /\ UNCHANGED opened
       ELSE /\ readers' = Step(readers, s,
                   [s EXCEPT !.pc = "read", !.handles = @ + 1])
            /\ opened' = opened + 1
            /\ UNCHANGED <<failed, incF, fetchOut, jobState, lateInc>>
  /\ UNCHANGED <<cfg, jobs, jobsChan, jobsCap, jobsClosed, resultsChan,
                 resultsCap, resultsClosed, closeCount, readWg, processWg,
                 transferred, mainPc, mainI, ret, feederPc, feederI,
                 sentinelPc, workers, panicked, procOut, incT, calls, closed,
                 jobDeq, resDeq>>

\* the open-error path without its atomic.AddInt32(&failed, 1)
ReaderOpenNoCount(s) ==
  /\ Running /\ BagIn(s, readers) /\ s.pc = "open"
  /\ \E err \in Errors :
       IF err # "nil"
       THEN /\ fetchOut' = [fetchOut EXCEPT ![s.job] = "fail"]
            /\ jobState' = [jobState EXCEPT ![s.job] = "FetchFailed"]
            /\ readers' = Step(readers, s,
                   [s EXCEPT !.pc = "recv", !.job = NoJob])
            /\ UNCHANGED opened
       ELSE /\ readers' = Step(readers, s,
                   [s EXCEPT !.pc = "read", !.handles = @ + 1])
            /\ opened' = opened + 1
            /\ UNCHANGED <<fetchOut, jobState>>
  /\ UNCHANGED <<cfg, jobs, jobsChan, jobsCap, jobsClosed, resultsChan,
                 resultsCap, resultsClosed, closeCount, readWg, processWg,
                 transferred, failed, mainPc, mainI, ret, feederPc, feederI,
                 sentinelPc, workers, panicked, procOut, incT, incF, calls,
                 closed, jobDeq, resDeq, lateInc>>

\* lines 58-62: sftpClient.Open(job.RemotePath); on error count and continue
ReaderOpen(s) ==
  /\ Running /\ BagIn(s, readers) /\ s.pc = "open"
  /\ \E err \in Errors :
       IF err # "nil"
       THEN /\ failed' = AddInt32(failed)
            /\ incF' = [incF EXCEPT ![s.job] = @ + 1]
            /\ fetchOut' = [fetchOut EXCEPT ![s.job] = "fail"]
            /\ jobState' = [jobState EXCEPT ![s.job] = "FetchFailed"]
            /\ readers' = Step(readers, s,
                   [s EXCEPT !.pc = "recv", !.job = NoJob])
            /\ lateInc' = (lateInc \/ ret.set)
            /\ UNCHANGED opened
       ELSE /\ readers' = Step(readers, s,
                   [s EXCEPT !.pc = "read", !.handles = @ + 1])
            /\ opened' = opened + 1
            /\ UNCHANGED <<failed, incF, fetchOut, jobState, lateInc>>
  /\ UNCHANGED <<cfg, jobs, jobsChan, jobsCap, jobsClosed, resultsChan,
                 resultsCap, resultsClosed, closeCount, readWg, processWg,
                 transferred, mainPc, mainI, ret, feederPc, feederI,
                 sentinelPc, workers, panicked, procOut, incT, calls, closed,
                 jobDeq, resDeq>>

\* the read-error path taken before f.Close(): the handle of a failed read is
\* never closed
ReaderReadLeak(s) ==
  /\ Running /\ BagIn(s, readers) /\ s.pc = "read"
  /\ \E err \in Errors :
       IF err # "nil"
       THEN /\ failed' = AddInt32(failed)
            /\ incF' = [incF EXCEPT ![s.job] = @ + 1]
            /\ fetchOut' = [fetchOut EXCEPT ![s.job] = "fail"]
            /\ jobState' = [jobState EXCEPT ![s.job] = "FetchFailed"]
            /\ readers' = Step(readers, s,
                   [s EXCEPT !.pc = "recv", !.job = NoJob])
            /\ lateInc' = (lateInc \/ ret.set)
            /\ UNCHANGED closed
       ELSE /\ closed' = closed + 1
            /\ fetchOut' = [fetchOut EXCEPT ![s.job] = "ok"]
            /\ jobState' = [jobState EXCEPT ![s.job] = "FetchSucceeded"]
            /\ readers' = Step(readers, s,
                   [s EXCEPT !.pc = "send", !.handles = @ - 1])
            /\ UNCHANGED <<failed, incF, lateInc>>
  /\ UNCHANGED <<cfg, jobs, jobsChan, jobsCap, jobsClosed, resultsChan,
                 resultsCap, resultsClosed, closeCount, readWg, processWg,
                 transferred, mainPc, mainI, ret, feederPc, feederI,
                 sentinelPc, workers, panicked, procOut, incT, calls, opened,
                 jobDeq, resDeq>>

\* the read-error path without its atomic.AddInt32(&failed, 1)
ReaderReadNoCount(s) ==
  /\ Running /\ BagIn(s, readers) /\ s.pc = "read"
  /\ closed' = closed + 1
  /\ \E err \in Errors :
       IF err # "nil"
       THEN /\ fetchOut' = [fetchOut EXCEPT ![s.job] = "fail"]
            /\ jobState' = [jobState EXCEPT ![s.job] = "FetchFailed"]
            /\ readers' = Step(readers, s,
                   [s EXCEPT !.pc = "recv", !.job = NoJob, !.handles = @ - 1])
       ELSE /\ fetchOut' = [fetchOut EXCEPT ![s.job] = "ok"]
            /\ jobState' = [jobState EXCEPT ![s.job] = "FetchSucceeded"]
            /\ readers' = Step(readers, s,
                   [s EXCEPT !.pc = "send", !.handles = @ - 1])
  /\ UNCHANGED <<cfg, jobs, jobsChan, jobsCap, jobsClosed, resultsChan,
                 resultsCap, resultsClosed, closeCount, readWg, processWg,
                 transferred, failed, mainPc, mainI, ret, feederPc, feederI,
                 sentinelPc, workers, panicked, procOut, incT, incF, calls,
                 opened, jobDeq, resDeq, lateInc>>

\* lines 63-68: data, err := io.ReadAll(f); f.Close(); on a read error count
\* and continue
ReaderRead(s) ==
  /\ Running /\ BagIn(s, readers) /\ s.pc = "read"
  /\ closed' = closed + 1
  /\ \E err \in Errors :
       IF err # "nil"
       THEN /\ failed' = AddInt32(failed)
            /\ incF' = [incF EXCEPT ![s.job] = @ + 1]
            /\ fetchOut' = [fetchOut EXCEPT ![s.job] = "fail"]
            /\ jobState' = [jobState EXCEPT ![s.job] = "FetchFailed"]
            /\ readers' = Step(readers, s,
                   [s EXCEPT !.pc = "recv", !.job = NoJob, !.handles = @ - 1])
            /\ lateInc' = (lateInc \/ ret.set)
       ELSE /\ fetchOut' = [fetchOut EXCEPT ![s.job] = "ok"]
            /\ jobState' = [jobState EXCEPT ![s.job] = "FetchSucceeded"]
            /\ readers' = Step(readers, s,
                   [s EXCEPT !.pc = "send", !.handles = @ - 1])
            /\ UNCHANGED <<failed, incF, lateInc>>
  /\ UNCHANGED <<cfg, jobs, jobsChan, jobsCap, jobsClosed, resultsChan,
                 resultsCap, resultsClosed, closeCount, readWg, processWg,
                 transferred, mainPc, mainI, ret, feederPc, feederI,
                 sentinelPc, workers, panicked, procOut, incT, calls, opened,
                 jobDeq, resDeq>>

\* the process workers blocked in their receive, ready for a direct hand-off
WaitingWorkers == {w \in BagToSet(workers) : w.pc = "recv"}

\* line 69 with a send that never waits for room: the result is buffered
\* whatever the queue already holds
ReaderSendNoBlock(s) ==
  /\ Running /\ BagIn(s, readers) /\ s.pc = "send"
  /\ IF resultsClosed
     THEN /\ panicked' = TRUE
          /\ UNCHANGED <<resultsChan, readers>>
     ELSE /\ resultsChan' = Append(resultsChan, FileResult(jobs[s.job]))
          /\ readers' = Step(readers, s, [s EXCEPT !.pc = "recv", !.job = NoJob])
          /\ UNCHANGED panicked
  /\ UNCHANGED <<cfg, jobs, jobsChan, jobsCap, jobsClosed, resultsCap,
                 resultsClosed, closeCount, readWg, processWg, transferred,
                 failed, mainPc, mainI, ret, feederPc, feederI, sentinelPc,
                 workers, jobState, fetchOut, procOut, incT, incF, calls,
                 opened, closed, jobDeq, resDeq, lateInc>>

\* the loop body without its send: the fetched data is discarded
ReaderSendDrop(s) ==
  /\ Running /\ BagIn(s, readers) /\ s.pc = "send"
  /\ readers' = Step(readers, s, [s EXCEPT !.pc = "recv", !.job = NoJob])
  /\ UNCHANGED <<cfg, jobs, jobsChan, jobsCap, jobsClosed, resultsChan,
                 resultsCap, resultsClosed, closeCount, readWg, processWg,
                 transferred, failed, mainPc, mainI, ret, feederPc, feederI,
                 sentinelPc, workers, panicked, jobState, fetchOut, procOut,
                 incT, incF, calls, opened, closed, jobDeq, resDeq, lateInc>>

\* line 69: resultsChan <- FileResult{ID: job.ID, Data: data}
\* a send on a closed channel panics; a buffered channel takes the value while
\* it has room; an unbuffered channel hands it to a waiting receiver
ReaderSend(s) ==
  /\ Running /\ BagIn(s, readers) /\ s.pc = "send"
  /\ IF resultsClosed
     THEN /\ panicked' = TRUE
          /\ UNCHANGED <<resultsChan, readers, workers, jobState, resDeq>>
     ELSE /\ IF Len(resultsChan) < resultsCap
             THEN /\ resultsChan' = Append(resultsChan, FileResult(jobs[s.job]))
                  /\ UNCHANGED <<workers, jobState, resDeq>>
             ELSE /\ resultsCap = 0
                  /\ \E w \in WaitingWorkers :
                       workers' = Step(workers, w,
                         [w EXCEPT !.pc = "process",
                                   !.res = FileResult(jobs[s.job]).ID])
                  /\ jobState' = [jobState EXCEPT ![s.job] = "ProcessInFlight"]
                  /\ resDeq' = [resDeq EXCEPT
                       ![FileResult(jobs[s.job]).ID] = @ + 1]
                  /\ UNCHANGED resultsChan
          /\ readers' = Step(readers, s, [s EXCEPT !.pc = "recv", !.job = NoJob])
          /\ UNCHANGED panicked
  /\ UNCHANGED <<cfg, jobs, jobsChan, jobsCap, jobsClosed, resultsCap,
                 resultsClosed, closeCount, readWg, processWg, transferred,
                 failed, mainPc, mainI, ret, feederPc, feederI, sentinelPc,
                 fetchOut, procOut, incT, incF, calls, opened, closed, jobDeq,
                 lateInc>>

\* ---------------------------------------------------------------- sentinel

\* the sentinel without its readWg.Wait()
SentinelNoWait ==
  /\ Running /\ sentinelPc = "wait"
  /\ sentinelPc' = "close"
  /\ UNCHANGED <<cfg, jobs, jobsChan, jobsCap, jobsClosed, resultsChan,
                 resultsCap, resultsClosed, closeCount, readWg, processWg,
                 transferred, failed, mainPc, mainI, ret, feederPc, feederI,
                 readers, workers, panicked, jobState, fetchOut, procOut, incT,
                 incF, calls, opened, closed, jobDeq, resDeq, lateInc>>

\* line 75: readWg.Wait() returns once the counter is zero
SentinelWait ==
  /\ Running /\ sentinelPc = "wait"
  /\ WgWait(readWg)
  /\ sentinelPc' = "close"
  /\ UNCHANGED <<cfg, jobs, jobsChan, jobsCap, jobsClosed, resultsChan,
                 resultsCap, resultsClosed, closeCount, readWg, processWg,
                 transferred, failed, mainPc, mainI, ret, feederPc, feederI,
                 readers, workers, panicked, jobState, fetchOut, procOut, incT,
                 incF, calls, opened, closed, jobDeq, resDeq, lateInc>>

\* line 76: close(resultsChan); closing a closed channel panics
SentinelClose ==
  /\ Running /\ sentinelPc = "close"
  /\ IF resultsClosed
     THEN panicked' = TRUE /\ UNCHANGED <<resultsClosed, closeCount, sentinelPc>>
     ELSE /\ resultsClosed' = TRUE
          /\ closeCount' = closeCount + 1
          /\ sentinelPc' = "done"
          /\ UNCHANGED panicked
  /\ UNCHANGED <<cfg, jobs, jobsChan, jobsCap, jobsClosed, resultsChan,
                 resultsCap, readWg, processWg, transferred, failed, mainPc,
                 mainI, ret, feederPc, feederI, readers, workers, jobState,
                 fetchOut, procOut, incT, incF, calls, opened, closed, jobDeq,
                 resDeq, lateInc>>

\* ---------------------------------------------------------------- workers

\* line 84 and 83: for result := range resultsChan; the deferred
\* processWg.Done() runs when the channel is closed and drained
WorkerRecv(w) ==
  /\ Running /\ BagIn(w, workers) /\ w.pc = "recv"
  /\ IF resultsChan # <<>>
     THEN /\ workers' = Step(workers, w,
                 [w EXCEPT !.pc = "process", !.res = Head(resultsChan).ID])
          /\ resultsChan' = Tail(resultsChan)
          /\ jobState' = [jobState EXCEPT
               ![Head(resultsChan).ID] = "ProcessInFlight"]
          /\ resDeq' = [resDeq EXCEPT ![Head(resultsChan).ID] = @ + 1]
          /\ UNCHANGED processWg
     ELSE /\ resultsClosed
          /\ workers' = Step(workers, w, [w EXCEPT !.pc = "done"])
          /\ processWg' = WgDone(processWg)
          /\ UNCHANGED <<resultsChan, jobState, resDeq>>
  /\ UNCHANGED <<cfg, jobs, jobsChan, jobsCap, jobsClosed, resultsCap,
                 resultsClosed, closeCount, readWg, transferred, failed,
                 mainPc, mainI, ret, feederPc, feederI, readers, sentinelPc,
                 panicked, fetchOut, procOut, incT, incF, calls, opened,
                 closed, jobDeq, lateInc>>

\* lines 85-89: processFunc(result); count the outcome
WorkerProcess(w) ==
  /\ Running /\ BagIn(w, workers) /\ w.pc = "process"
  /\ calls' = [calls EXCEPT ![w.res] = @ + 1]
  /\ \E err \in Errors :
       /\ procOut' = [procOut EXCEPT ![w.res] = err]
       /\ IF ProcErr(err)
          THEN /\ failed' = AddInt32(failed)
               /\ incF' = [incF EXCEPT ![w.res] = @ + 1]
               /\ jobState' = [jobState EXCEPT ![w.res] = "ProcessFailed"]
               /\ UNCHANGED <<transferred, incT>>
          ELSE /\ transferred' = AddInt32(transferred)
               /\ incT' = [incT EXCEPT ![w.res] = @ + 1]
               /\ jobState' = [jobState EXCEPT ![w.res] = "ProcessSucceeded"]
               /\ UNCHANGED <<failed, incF>>
  /\ lateInc' = (lateInc \/ ret.set)
  /\ workers' = Step(workers, w, [w EXCEPT !.pc = "recv", !.res = NoJob])
  /\ UNCHANGED <<cfg, jobs, jobsChan, jobsCap, jobsClosed, resultsChan,
                 resultsCap, resultsClosed, closeCount, readWg, processWg,
                 mainPc, mainI, ret, feederPc, feederI, readers, sentinelPc,
                 panicked, fetchOut, opened, closed, jobDeq, resDeq>>

\* ---------------------------------------------------------------- system

Next ==
  \/ MainStart
  \/ MainSpawnReader
  \/ MainGoSentinel
  \/ MainSpawnWorker
  \/ MainWait
  \/ MainReturn
  \/ FeederSend
  \/ FeederClose
  \/ \E s \in BagToSet(readers) : ReaderRecv(s)
  \/ \E s \in BagToSet(readers) : ReaderOpen(s)
  \/ \E s \in BagToSet(readers) : ReaderRead(s)
  \/ \E s \in BagToSet(readers) : ReaderSend(s)
  \/ SentinelWait
  \/ SentinelClose
  \/ \E w \in BagToSet(workers) : WorkerRecv(w)
  \/ \E w \in BagToSet(workers) : WorkerProcess(w)

Spec == Init /\ [][Next]_vars

\* the goroutines of a run
Main ==
  \/ MainStart \/ MainSpawnReader \/ MainGoSentinel \/ MainSpawnWorker
  \/ MainWait \/ MainReturn

Feeder == FeederSend \/ FeederClose

Reader(s) == ReaderRecv(s) \/ ReaderOpen(s) \/ ReaderRead(s) \/ ReaderSend(s)

ReaderPool == \E s \in BagToSet(readers) : Reader(s)

Sentinel == SentinelWait \/ SentinelClose

Worker(w) == WorkerRecv(w) \/ WorkerProcess(w)

WorkerPool == \E w \in BagToSet(workers) : Worker(w)

\* the Go scheduler runs every runnable goroutine eventually, and every call
\* to Open, ReadAll and processFunc returns. For a pool this is stated as: a
\* pool that stays able to step does step, which weak fairness of each of
\* its goroutines implies (a reader or worker that can step stays able to
\* until some goroutine of its pool steps).
Fairness ==
  /\ WF_vars(Main)
  /\ WF_vars(Feeder)
  /\ WF_vars(ReaderPool)
  /\ WF_vars(Sentinel)
  /\ WF_vars(WorkerPool)

FairSpec == Init /\ [][Next]_vars /\ Fairness

\* ------------------------------------------- the copies that use wg.Go

\* src/unnamed/part_000 and TransferFilesMock (src/main_test.go) are
\* TransferFiles with each "wg.Add(1); go func() { defer wg.Done(); ... }()"
\* written as "wg.Go(func() { ... })"; every other statement is the same.

\* sync.WaitGroup.Go(f): the counter is incremented by the caller, before the
\* new goroutine is started; f runs in that goroutine, and Done is called
\* when f returns
WgGo(n) == n + 1

\* a reader started by a bare go statement: the wait group is never told
MainSpawnReaderBareGo ==
  /\ Running /\ mainPc = "spawnReaders" /\ mainI < cfg.SFTPReaders
  /\ readers' = readers (+) SetToBag({NewReader})
  /\ mainI' = mainI + 1
  /\ UNCHANGED <<cfg, jobs, jobsChan, jobsCap, jobsClosed, resultsChan,
                 resultsCap, resultsClosed, closeCount, readWg, processWg,
                 transferred, failed, mainPc, ret, feederPc, feederI,
                 sentinelPc, workers, panicked, jobState, fetchOut, procOut,
                 incT, incF, calls, opened, closed, jobDeq, resDeq, lateInc>>

\* part_000 lines 55-56: one iteration of the reader loop: readWg.Go(func())
MainSpawnReaderGo ==
  /\ Running /\ mainPc = "spawnReaders" /\ mainI < cfg.SFTPReaders
  /\ readWg' = WgGo(readWg)
  /\ readers' = readers (+) SetToBag({NewReader})
  /\ mainI' = mainI + 1
  /\ UNCHANGED <<cfg, jobs, jobsChan, jobsCap, jobsClosed, resultsChan,
                 resultsCap, resultsClosed, closeCount, processWg, transferred,
                 failed, mainPc, ret, feederPc, feederI, sentinelPc, workers,
                 panicked, jobState, fetchOut, procOut, incT, incF, calls,
                 opened, closed, jobDeq, resDeq, lateInc>>

\* part_000 lines 82-83: one iteration of the worker loop:
\* processWg.Go(func())
MainSpawnWorkerGo ==
  /\ Running /\ mainPc = "spawnWorkers" /\ mainI < cfg.Workers
  /\ processWg' = WgGo(processWg)
  /\ workers' = workers (+) SetToBag({NewWorker})
  /\ mainI' = mainI + 1
  /\ UNCHANGED <<cfg, jobs, jobsChan, jobsCap, jobsClosed, resultsChan,
                 resultsCap, resultsClosed, closeCount, readWg, transferred,
                 failed, mainPc, ret, feederPc, feederI, readers, sentinelPc,
                 panicked, jobState, fetchOut, procOut, incT, incF, calls,
                 opened, closed, jobDeq, resDeq, lateInc>>

\* the steps of a wg.Go copy: the closure passed to Go returns where the
\* goroutine of main.go returns, at the end of its range loop, and Done runs
\* there in both
NextGo ==
  \/ MainStart
  \/ MainSpawnReaderGo
  \/ MainGoSentinel
  \/ MainSpawnWorkerGo
  \/ MainWait
  \/ MainReturn
  \/ FeederSend
  \/ FeederClose
  \/ \E s \in BagToSet(readers) : ReaderRecv(s)
  \/ \E s \in BagToSet(readers) : ReaderOpen(s)
  \/ \E s \in BagToSet(readers) : ReaderRead(s)
  \/ \E s \in BagToSet(readers) : ReaderSend(s)
  \/ SentinelWait
  \/ SentinelClose
  \/ \E w \in BagToSet(workers) : WorkerRecv(w)
  \/ \E w \in BagToSet(workers) : WorkerProcess(w)

SpecGo == Init /\ [][NextGo]_vars

\* ---------------------------------------------------------------- helpers

\* a configuration of the data model: positive pool sizes, capacity >= 0
ValidCfg ==
  cfg.SFTPReaders >= 1 /\ cfg.Workers >= 1 /\ cfg.BufferSize >= 0

JobIx == 1..Len(jobs)

Terminal == {"FetchFailed", "ProcessFailed", "ProcessSucceeded"}

RECURSIVE SumTo(_, _)
SumTo(f, n) == IF n = 0 THEN 0 ELSE f[n] + SumTo(f, n - 1)

\* number of entries of a channel buffer that carry job j
InChan(q, j) == Cardinality({k \in 1..Len(q) : q[k].ID = j})

\* number of readers that hold job j at one of the positions pcs
ReadersAt(pcs, j) ==
  Count(readers, {s \in BagToSet(readers) : s.job = j /\ s.pc \in pcs})

\* number of workers that hold the result of job j
WorkersWith(j) == Count(workers, {w \in BagToSet(workers) : w.res = j})

\* number of places that hold job j: the unsent tail of the list, the work
\* queue, a reader, the results queue, a worker
Holders(j) ==
  (IF j >= feederI THEN 1 ELSE 0)
  + InChan(jobsChan, j)
  + ReadersAt({"recv", "open", "read", "send", "done"}, j)
  + InChan(resultsChan, j)
  + WorkersWith(j)

\* every goroutine of the run has been started and has run to its end
AllExited ==
  /\ feederPc = "done"
  /\ readers = [s \in {[NewReader EXCEPT !.pc = "done"]} |-> cfg.SFTPReaders]
  /\ sentinelPc = "done"
  /\ workers = [w \in {[NewWorker EXCEPT !.pc = "done"]} |-> cfg.Workers]

\* ---------------------------------------------------------------- claims

\* C1: for every job list, every per-job outcome and every configuration
\* with SFTPReaders >= 1, Workers >= 1 and BufferSize >= 0, the returned pair
\* satisfies transferred + failed = len(jobs).
C1_SumIsLen ==
  (ret.set /\ ValidCfg) => ret.transferred + ret.failed = Len(jobs)

\* a run of MaxJobs jobs returned with both counters positive
C1_Witness ==
  /\ ret.set /\ ValidCfg /\ Len(jobs) = MaxJobs
  /\ ret.transferred >= 1 /\ ret.failed >= 1

\* C2: every job causes exactly one counter increment over the whole run. A
\* job whose fetch fails increments failed once in a reader and never reaches
\* the results queue or processFunc; a job whose fetch succeeds increments
\* exactly one counter once in a worker. A job is held in exactly one place
\* until it reaches its single terminal state, its position on the path
\* Queued -> FetchInFlight -> FetchFailed | FetchSucceeded -> ProcessInFlight
\* -> ProcessFailed | ProcessSucceeded matches the place that holds it, and at
\* the return (valid configuration) every job is terminal.
C2_OneIncrementPerJob ==
  /\ \A j \in JobIx :
       /\ incT[j] + incF[j] <= 1
       /\ Holders(j) = (IF jobState[j] \in Terminal THEN 0 ELSE 1)
       /\ jobState[j] = "Queued" =>
            /\ (j >= feederI \/ InChan(jobsChan, j) = 1)
            /\ incT[j] = 0 /\ incF[j] = 0 /\ fetchOut[j] = "none"
       /\ jobState[j] = "FetchInFlight" =>
            /\ ReadersAt({"open", "read"}, j) = 1
            /\ incT[j] = 0 /\ incF[j] = 0 /\ fetchOut[j] = "none"
       /\ jobState[j] = "FetchFailed" =>
            /\ incF[j] = 1 /\ incT[j] = 0 /\ calls[j] = 0
            /\ fetchOut[j] = "fail" /\ procOut[j] = "none"
       /\ jobState[j] = "FetchSucceeded" =>
            /\ ReadersAt({"send"}, j) + InChan(resultsChan, j) = 1
            /\ incT[j] = 0 /\ incF[j] = 0 /\ calls[j] = 0
            /\ fetchOut[j] = "ok"
       /\ jobState[j] = "ProcessInFlight" =>
            /\ Count(workers, {[pc |-> "process", res |-> j]}) = 1
            /\ incT[j] = 0 /\ incF[j] = 0 /\ calls[j] = 0
            /\ fetchOut[j] = "ok"
       /\ jobState[j] = "ProcessFailed" =>
            /\ incF[j] = 1 /\ incT[j] = 0 /\ calls[j] = 1
            /\ fetchOut[j] = "ok" /\ procOut[j] = "err"
       /\ jobState[j] = "ProcessSucceeded" =>
            /\ incT[j] = 1 /\ incF[j] = 0 /\ calls[j] = 1
            /\ fetchOut[j] = "ok" /\ procOut[j] = "nil"
  /\ transferred = SumTo(incT, Len(jobs))
  /\ failed = SumTo(incF, Len(jobs))
  /\ (ret.set /\ ValidCfg) => \A j \in JobIx : jobState[j] \in Terminal

\* a returned run in which each of the three terminal states was reached
C2_Witness ==
  /\ ret.set /\ ValidCfg /\ Len(jobs) = 3
  /\ jobState[1] = "FetchFailed"
  /\ jobState[2] = "ProcessFailed"
  /\ jobState[3] = "ProcessSucceeded"

\* C3: under weak fairness of every goroutine, TransferFiles eventually
\* returns for every job list (the empty one included) and every
\* configuration with SFTPReaders >= 1, Workers >= 1 and BufferSize >= 0
\* (the unbuffered one included).
C3_Returns == ValidCfg ~> ret.set

\* an unbuffered run of MaxJobs jobs that returned after processing a result
C3_Witness ==
  /\ ret.set /\ ValidCfg /\ cfg.BufferSize = 0 /\ Len(jobs) = MaxJobs
  /\ \E j \in JobIx : calls[j] = 1

\* C4: when TransferFiles reads the counters for its summary and return value
\* (valid configuration) the feeder has closed the work queue, every reader
\* and every worker has left its loop, the sentinel has closed the results
\* queue and both queues are empty; the values read are the final ones, no
\* increment happens after the read and no goroutine is left on a channel.
C4_QuiescentAtReturn ==
  (ValidCfg /\ mainPc \in {"return", "done"}) =>
    /\ AllExited
    /\ jobsClosed /\ resultsClosed
    /\ jobsChan = <<>> /\ resultsChan = <<>>
    /\ readWg = 0 /\ processWg = 0
    /\ ~lateInc
    /\ ret.set => (ret.transferred = transferred /\ ret.failed = failed)

\* the caller is about to read the counters of a run of MaxJobs jobs with
\* every pool at its largest and results of both kinds counted
C4_Witness ==
  /\ mainPc = "return" /\ Len(jobs) = MaxJobs
  /\ cfg.SFTPReaders = MaxReaders /\ cfg.Workers = MaxWorkers
  /\ transferred >= 1 /\ failed >= 1

\* C5: the results queue is closed exactly once per run, by the sentinel only
\* and only when every reader has been started and has exited; no reader
\* sends on it after the close (no panic), and no Result a reader produced is
\* lost before a worker receives it: it is with its reader, in the queue, or
\* with or past a worker.
C5_CloseOnceAfterReaders ==
  /\ closeCount = (IF resultsClosed THEN 1 ELSE 0)
  /\ resultsClosed <=> sentinelPc = "done"
  /\ resultsClosed =>
       /\ BagCardinality(readers) = cfg.SFTPReaders
       /\ \A s \in BagToSet(readers) : s.pc = "done"
  /\ ~panicked
  /\ \A j \in JobIx :
       fetchOut[j] = "ok" =>
         (IF calls[j] = 0
          THEN ReadersAt({"send"}, j) + InChan(resultsChan, j)
               + WorkersWith(j) = 1
          ELSE calls[j] = 1 /\ WorkersWith(j) = 0)

\* the results queue is closed while a Result is still buffered in it
C5_Witness ==
  /\ resultsClosed /\ resultsChan # <<>>
  /\ cfg.SFTPReaders = MaxReaders

\* C6: a misconfigured pool size is rejected before the pipeline starts: with
\* SFTPReaders <= 0 or Workers <= 0 the feeder and the workers are not started
\* and no counts are returned as if the run had completed.
C6_RejectsBadPools ==
  (cfg.SFTPReaders <= 0 \/ cfg.Workers <= 0) =>
    /\ feederPc = "idle" /\ sentinelPc = "idle"
    /\ readers = EmptyBag /\ workers = EmptyBag
    /\ ~ret.set

\* the jobs whose open and read succeeded and whose processFunc returned nil
Succeeded == {j \in JobIx : fetchOut[j] = "ok" /\ procOut[j] = "nil"}

\* C7: the returned counts are a function of the per-job outcomes (valid
\* configuration): transferred is the number of jobs whose open and read
\* succeed and whose processFunc returns nil, failed the number of all other
\* jobs; so 3 jobs of which only the second cannot be opened give (2, 1).
C7_CountsFromOutcomes ==
  (ret.set /\ ValidCfg) =>
    /\ ret.transferred = Cardinality(Succeeded)
    /\ ret.failed = Len(jobs) - Cardinality(Succeeded)

\* 3 jobs, the second failed at Open (two handles were opened, for jobs 1 and
\* 3), processFunc returned nil twice: the run returned (2, 1)
C7_Witness ==
  /\ ret.set /\ ValidCfg /\ Len(jobs) = 3
  /\ fetchOut = <<"ok", "fail", "ok">> /\ opened = 2
  /\ procOut = <<"nil", "none", "nil">>
  /\ ret.transferred = 2 /\ ret.failed = 1

\* C8: if every open and read succeeds and processFunc returns nil for every
\* result then, for positive pool sizes, failed = 0 and transferred =
\* len(jobs).
C8_AllSucceed ==
  (/\ ret.set /\ ValidCfg
   /\ \A j \in JobIx : fetchOut[j] # "fail" /\ procOut[j] # "err") =>
    ret.failed = 0 /\ ret.transferred = Len(jobs)

\* a returned run of MaxJobs jobs that all succeeded
C8_Witness ==
  /\ ret.set /\ ValidCfg /\ Len(jobs) = MaxJobs
  /\ \A j \in JobIx : fetchOut[j] = "ok" /\ procOut[j] = "nil"
  /\ ret.transferred = MaxJobs

\* C9: if Open fails for every job (no handle is ever opened) then nothing is
\* ever sent on the results queue and processFunc is never invoked, in any
\* interleaving, and the run (valid configuration) returns failed =
\* len(jobs) and transferred = 0.
C9_AllOpensFail ==
  opened = 0 =>
    /\ resultsChan = <<>>
    /\ \A w \in BagToSet(workers) : w.res = NoJob
    /\ \A s \in BagToSet(readers) : s.pc # "send"
    /\ \A j \in JobIx : calls[j] = 0 /\ fetchOut[j] # "ok"
    /\ transferred = 0
    /\ (ret.set /\ ValidCfg) =>
         ret.failed = Len(jobs) /\ ret.transferred = 0

\* a returned run of MaxJobs jobs in which every Open failed
C9_Witness ==
  /\ ret.set /\ ValidCfg /\ Len(jobs) = MaxJobs /\ opened = 0
  /\ \A j \in JobIx : fetchOut[j] = "fail"
  /\ ret.failed = MaxJobs

\* C10: if every fetch succeeds and processFunc returns an error for every
\* result then the run (valid configuration) returns failed = len(jobs) and
\* transferred = 0.
C10_AllProcessFail ==
  (/\ ret.set /\ ValidCfg
   /\ \A j \in JobIx : fetchOut[j] # "fail" /\ procOut[j] # "nil") =>
    ret.failed = Len(jobs) /\ ret.transferred = 0

\* a returned run of MaxJobs jobs, all fetched, all rejected by processFunc
C10_Witness ==
  /\ ret.set /\ ValidCfg /\ Len(jobs) = MaxJobs
  /\ \A j \in JobIx : fetchOut[j] = "ok" /\ procOut[j] = "err"
  /\ ret.failed = MaxJobs

\* the pair a strictly sequential run over the first n jobs computes from the
\* per-job outcomes alone: one job at a time, in list order, fetch then
\* processFunc; it mentions neither the configuration nor any interleaving
RECURSIVE SeqCounts(_, _, _)
SeqCounts(fo, po, n) ==
  IF n = 0 THEN [transferred |-> 0, failed |-> 0]
  ELSE LET r == SeqCounts(fo, po, n - 1) IN
       IF fo[n] = "ok" /\ po[n] = "nil"
       THEN [r EXCEPT !.transferred = @ + 1]
       ELSE [r EXCEPT !.failed = @ + 1]

\* C11: for a fixed job list and fixed per-job fetch and processing outcomes
\* the returned pair is the same for every SFTPReaders >= 1, Workers >= 1,
\* BufferSize >= 0 and every interleaving: whatever the pool sizes, the
\* buffer and the schedule were, the pair returned equals the pair of the
\* sequential reference run over the same jobs and outcomes, so no two runs
\* that agree on jobs and outcomes can return different pairs.
C11_PairIndependentOfSchedule ==
  (ret.set /\ ValidCfg) =>
    /\ \A j \in JobIx : fetchOut[j] # "none"
    /\ \A j \in JobIx : fetchOut[j] = "ok" => procOut[j] # "none"
    /\ [transferred |-> ret.transferred, failed |-> ret.failed]
         = SeqCounts(fetchOut, procOut, Len(jobs))

\* a returned run with the largest pools and buffer, in which the jobs had
\* three different outcomes
C11_Witness ==
  /\ ret.set /\ Len(jobs) = MaxJobs
  /\ cfg.SFTPReaders = MaxReaders /\ cfg.Workers = MaxWorkers
  /\ cfg.BufferSize = MaxBuffer
  /\ fetchOut[1] = "fail" /\ procOut[2] = "err" /\ procOut[3] = "nil"
  /\ ret.transferred = 1 /\ ret.failed = 2

\* the jobs that ended in a failure, at the fetch or in processFunc
FailedJobs == {j \in JobIx : jobState[j] \in {"FetchFailed", "ProcessFailed"}}

\* C12: a per-job failure never aborts or stalls the run. Nothing panics; a
\* worker that has counted a failure is back at the head of its loop, so a
\* fetch worker is out of its loop only when the work queue is closed and
\* empty and a process worker only when the results queue is closed and
\* empty; and in a returned run (positive pools) in which jobs failed every
\* other job has still reached its own terminal outcome, the failures showing
\* only as the failed count.
C12_FailureDoesNotStopRun ==
  /\ ~panicked
  /\ \A s \in BagToSet(readers) :
       /\ s.pc = "done" => jobsClosed /\ jobsChan = <<>>
       /\ s.pc = "recv" => s.job = NoJob
  /\ \A w \in BagToSet(workers) :
       /\ w.pc = "done" => resultsClosed /\ resultsChan = <<>>
       /\ w.pc = "recv" => w.res = NoJob
  /\ (ret.set /\ ValidCfg) =>
       /\ \A j \in JobIx \ FailedJobs : jobState[j] = "ProcessSucceeded"
       /\ ret.failed = Cardinality(FailedJobs)
       /\ ret.transferred = Len(jobs) - Cardinality(FailedJobs)

\* a returned run of the one fetch worker and the one process worker in which
\* the first job failed at the fetch, the second in processFunc, and the
\* third was still transferred by the same two workers
C12_Witness ==
  /\ ret.set /\ cfg.SFTPReaders = 1 /\ cfg.Workers = 1 /\ Len(jobs) = 3
  /\ jobState = <<"FetchFailed", "ProcessFailed", "ProcessSucceeded">>
  /\ ret.failed = 2 /\ ret.transferred = 1

\* C13: no job is dequeued from the work queue by more than one fetch worker
\* and no Result from the results queue by more than one process worker;
\* every Result queued or held by a process worker is the Result of a job
\* whose fetch succeeded and carries that job's ID; processFunc is invoked at
\* most once per job, never for a job whose fetch failed, and in a returned
\* run (positive pools) exactly once for each job whose fetch succeeded.
C13_SingleConsumption ==
  /\ \A j \in JobIx :
       /\ jobDeq[j] = (IF jobState[j] = "Queued" THEN 0 ELSE 1)
       /\ resDeq[j] <= 1 /\ calls[j] <= resDeq[j]
       /\ fetchOut[j] # "ok" => resDeq[j] = 0 /\ calls[j] = 0
       /\ calls[j] = 1 <=> jobState[j] \in {"ProcessSucceeded", "ProcessFailed"}
  /\ \A i \in 1..Len(resultsChan) :
       \E j \in JobIx : /\ resultsChan[i] = FileResult(jobs[j])
                        /\ resultsChan[i].ID = jobs[j].ID
                        /\ fetchOut[j] = "ok" /\ resDeq[j] = 0
  /\ \A w \in BagToSet(workers) :
       w.pc = "process" =>
         /\ workers[w] = 1
         /\ \E j \in JobIx : /\ w.res = jobs[j].ID /\ fetchOut[j] = "ok"
                             /\ resDeq[j] = 1 /\ calls[j] = 0
  /\ (ret.set /\ ValidCfg) =>
       \A j \in JobIx : calls[j] = (IF fetchOut[j] = "ok" THEN 1 ELSE 0)

\* a returned run with two fetch workers and two process workers in which
\* one fetch failed: the other jobs were each processed once, that one never
C13_Witness ==
  /\ ret.set /\ cfg.SFTPReaders = MaxReaders /\ cfg.Workers = MaxWorkers
  /\ Len(jobs) = MaxJobs
  /\ fetchOut[1] = "ok" /\ calls[1] = 1 /\ resDeq[1] = 1
  /\ fetchOut[2] = "fail" /\ calls[2] = 0 /\ jobDeq[2] = 1
  /\ \A j \in JobIx : j > 2 => calls[j] = 1

\* C14: the feeder enqueues the jobs in input order (the work queue always
\* holds a contiguous run of the list that ends at the last job enqueued,
\* every job before that run having been dequeued), closes the work queue
\* once and only after the last job was enqueued, and is never blocked at an
\* enqueue: whenever it has a job left to enqueue the queue has room,
\* whatever the fetch workers have or have not dequeued.
C14_FeederInOrderNeverBlocks ==
  /\ feederI \in 1..(Len(jobs) + 1)
  /\ \E a \in 1..feederI :
       /\ jobsChan = SubSeq(jobs, a, feederI - 1)
       /\ \A j \in JobIx : jobState[j] = "Queued" <=> j >= a
  /\ jobsClosed <=> feederPc = "done"
  /\ jobsClosed => feederI = Len(jobs) + 1
  /\ feederPc \in {"send", "done"} => jobsCap = Len(jobs)
  /\ (feederPc = "send" /\ feederI <= Len(jobs)) =>
       /\ ~jobsClosed /\ Len(jobsChan) < jobsCap
       /\ ENABLED FeederSend

\* the feeder has enqueued the whole list and closed the queue while no
\* fetch worker has dequeued anything yet: the queue is filled to capacity
C14_Witness ==
  /\ jobsClosed /\ feederPc = "done" /\ Len(jobs) = MaxJobs
  /\ jobsChan = jobs /\ Len(jobsChan) = jobsCap

\* the results queue can take nothing more from a sender: its buffer holds
\* BufferSize results and (unbuffered case) no process worker is waiting in
\* its receive to take a result directly
ResultsFull ==
  /\ ~resultsClosed
  /\ Len(resultsChan) >= cfg.BufferSize
  /\ (cfg.BufferSize = 0 => WaitingWorkers = {})

\* C15: in every reachable state the results queue holds at most BufferSize
\* results; a fetch worker that has a Result to push while the queue is full
\* is blocked at the push: its send is not enabled, it holds its job and
\* takes no other, and it stays so until a process worker receives.
C15_ResultsQueueBounded ==
  /\ Len(resultsChan) <= cfg.BufferSize
  /\ mainPc # "start" => resultsCap = cfg.BufferSize
  /\ \A s \in BagToSet(readers) :
       s.pc = "send" =>
         /\ s.job \in JobIx /\ jobState[s.job] = "FetchSucceeded"
         /\ ~ENABLED ReaderRecv(s)
         /\ ResultsFull => ~ENABLED ReaderSend(s)

\* a fetch worker holds a Result at its push while the buffer of BufferSize
\* results is full and another job still waits in the work queue
C15_Witness ==
  /\ cfg.BufferSize = MaxBuffer /\ Len(resultsChan) = MaxBuffer
  /\ ResultsFull /\ jobsChan # <<>>
  /\ \E s \in BagToSet(readers) : s.pc = "send"

\* number of fetch workers that hold a handle returned by Open and not closed
HandleHolders == Count(readers, {s \in BagToSet(readers) : s.handles > 0})

\* C16: every handle a successful Open returned is closed exactly once, when
\* the read has finished, on the read-success and the read-failure path
\* alike and before the worker pushes a Result or takes its next job: a
\* fetch worker holds one handle while it reads and none anywhere else, so
\* at most SFTPReaders handles are open at a time, the handles opened are
\* the handles closed plus the ones being read, and no handle is open when
\* TransferFiles (positive pools) returns.
C16_HandlesClosedOnce ==
  /\ \A s \in BagToSet(readers) :
       s.handles = (IF s.pc = "read" THEN 1 ELSE 0)
  /\ HandleHolders <= cfg.SFTPReaders
  /\ opened = closed + HandleHolders
  /\ closed <= Cardinality({j \in JobIx : fetchOut[j] # "none"})
  /\ (ret.set /\ ValidCfg) => HandleHolders = 0 /\ opened = closed

\* a returned run in which one handle was closed after a failed read and the
\* others after successful reads
C16_Witness ==
  /\ ret.set /\ ValidCfg /\ Len(jobs) = MaxJobs
  /\ opened = MaxJobs /\ closed = MaxJobs
  /\ fetchOut[1] = "fail" /\ \A j \in JobIx : j > 1 => fetchOut[j] = "ok"

\* the fetched payloads alive: read by a fetch worker and not yet finished by
\* processFunc, that is held by a fetch worker at its push, buffered in the
\* results queue, or held by a process worker in processFunc
PayloadsAlive ==
  Count(readers, {s \in BagToSet(readers) : s.pc = "send"})
    + Len(resultsChan)
    + Count(workers, {w \in BagToSet(workers) : w.pc = "process"})

\* C17 as stated: the number of fetched payloads alive at any time is
\* bounded by the results-queue capacity.
C17_AliveBoundedByCapacity == PayloadsAlive <= cfg.BufferSize

\* C17, amended: the number of fetched payloads alive at any time is at most
\* BufferSize + SFTPReaders + Workers: the BufferSize results buffered, one
\* per fetch worker waiting at its push and one per process worker inside
\* processFunc.
C17_AliveBoundedByCapacityAndPools ==
  /\ PayloadsAlive <= cfg.BufferSize + cfg.SFTPReaders + cfg.Workers
  /\ Count(readers, {s \in BagToSet(readers) : s.pc = "send"})
       <= cfg.SFTPReaders
  /\ Count(workers, {w \in BagToSet(workers) : w.pc = "process"})
       <= cfg.Workers

\* the amended bound is met: with one fetch worker, one process worker and
\* a buffer of one, three payloads are alive at once
C17_Witness ==
  /\ cfg.SFTPReaders = 1 /\ cfg.Workers = 1 /\ cfg.BufferSize = 1
  /\ PayloadsAlive = cfg.BufferSize + cfg.SFTPReaders + cfg.Workers

\* the jobs that have reached a terminal outcome
TerminalJobs == {j \in JobIx : jobState[j] \in Terminal}

\* number of receives from the work queue so far
Dequeued == SumTo(jobDeq, Len(jobs))

\* C18: in every reachable state transferred + failed is the number of jobs
\* that have reached a terminal outcome, which never exceeds the number of
\* jobs dequeued from the work queue nor len(jobs); and every step leaves
\* each counter as it was or one higher, at most one of the two moving.
C18_CountersTrackTerminalJobs ==
  /\ [](/\ transferred >= 0 /\ failed >= 0
        /\ transferred + failed = Cardinality(TerminalJobs)
        /\ transferred + failed <= Dequeued
        /\ Dequeued <= Len(jobs))
  /\ [][/\ transferred' \in {transferred, transferred + 1}
        /\ failed' \in {failed, failed + 1}
        /\ transferred' = transferred \/ failed' = failed]_vars

\* both counters have moved and a dequeued job is still on its way: the sum
\* is below the number dequeued
C18_Witness ==
  /\ transferred = 1 /\ failed = 1
  /\ Cardinality(TerminalJobs) = 2 /\ Dequeued = 3

\* processFunc is being invoked in this step with the result of job j
Invoked(j) == calls'[j] > calls[j]

C19_TwoReadersKeepOrder ==
  (cfg.SFTPReaders = 2 /\ cfg.Workers = 1) =>
    \A j, k \in JobIx :
      (j < k /\ fetchOut[j] = "ok" /\ calls[k] = 1) => calls[j] = 1

C19_TwoWorkersKeepOrder ==
  (cfg.SFTPReaders = 1 /\ cfg.Workers = 2) =>
    \A j, k \in JobIx :
      (j < k /\ fetchOut[j] = "ok" /\ calls[k] = 1) => calls[j] = 1

C20_MainRefinesGoCopies == Init /\ [][NextGo]_vars

====
